---- MODULE Spec2Model ----
(***************************************************************************)
(* The live interview session of the InterviewRoom component: microphone   *)
(* capture, the remote streaming connection, the playback scheduler and    *)
(* teardown.  Two implementations of the component are in the repository   *)
(* and both are modelled; impl selects one of them for a whole behaviour:  *)
(*   "room" : src/src/components/interview/interview-room.tsx, 881-1792    *)
(*   "ref"  : src/unnamed/part_001, 549-1251                               *)
(*                                                                         *)
(* One step of the model is one JavaScript task together with the          *)
(* microtasks it leaves behind: an await of a promise that is already      *)
(* settled (decodeAudioData has no await in its body) resumes in the       *)
(* microtask checkpoint of the same task, so no other callback runs in     *)
(* between.  A real suspension (getUserMedia, connect, resume, the HTML5   *)
(* fallback playback) is a position of its own.  React state is the        *)
(* committed value: functional setState updates are applied in call order. *)
(*                                                                         *)
(* Specifications:                                                         *)
(*   Spec        a whole session from the first render to the teardown     *)
(*   SpecPlay    playback in a started session, with more messages         *)
(*   SpecPlayEnd playback in a started session that is torn down           *)
(*   SpecReset   a started session of "ref" that is reset                  *)
(*   SpecDecode  single calls of decodeAudioData                           *)
(***************************************************************************)
EXTENDS Integers, Sequences, FiniteSets, TLC

\* ---------------------------------------------------------------- bounds
\* Messages delivered and device clock ticks in a playback run.
MaxMsgs == 3
MaxClock == 3
\* Messages delivered and device clock ticks in a whole-session run.
MaxLifeMsgs == 1
MaxLifeClock == 1
\* Longest decoded buffer, in clock ticks.
MaxDur == 2
\* End button presses.
MaxEnds == 2
\* Microphone streams granted.
MaxStreams == 2
\* resetSession calls.
MaxResets == 1
MaxMicCalls == 1
MaxConns == 3
\* Messages delivered in a playback run that ends with a teardown.
MaxEndMsgs == 2
\* Longest payload, in bytes, and largest channel count given to the decoder.
MaxBytes == 8
MaxChannels == 2
SampleDen == 10
MaxPayload == 2
MaxSpeakMsgs == 2
MaxSpeakClock == 2
SampleOver == 5

\* The scale of the 16-bit words: decodeAudioData divides by 32768, createBlob
\* multiplies by 32768 ("old", "room") or by 32767 ("ref").
Int16Scale == 32768
RefScale == 32767

VARIABLES
  impl,                 \* which implementation of InterviewRoom runs
  clock,                \* currentTime of the playback AudioContext
  isConnected, isRecording, isSpeaking,   \* InterviewState
  isLoading, error,     \* useState: isLoading, error
  sessionRef,           \* sessionRef.current: 0 = null, else index in conns
  mediaStreamRef,       \* mediaStreamRef.current: 0 = null, else index in streams
  audioContextRef,      \* playback context ref is non-null
  inputAudioContextRef, \* capture context ref is non-null ("ref" only)
  outputGainRef,        \* outputGainRef / outputNodeRef is non-null
  audioProcessorRef,    \* audioProcessorRef / scriptProcessorRef is non-null
  ctx,                  \* the AudioContext objects: state and close() calls
  nodes,                \* processor and gain node: still connected or not
  conns,                \* remote connections that were created
  streams,              \* microphone streams that were granted
  audioSources,         \* audioSourcesRef / sourcesRef: set of source ids
  nextStartTime,        \* nextStartTimeRef.current
  src,                  \* every AudioBufferSourceNode that was started
  epoch,                \* number of resets of nextStartTime to 0 so far
  currentTurn,          \* state.currentTurn: indices into msg
  msg,                  \* inbound messages and the position of their handler
  initPc,               \* position of the initialization
  recPc,                \* position of toggleRecording / startRecording
  capturedRecording,    \* state.isRecording as seen by the capture callback
  lastCapture,          \* what the latest onaudioprocess invocation did
  cleanups,             \* number of teardown runs so far
  ends,                 \* number of handleEndInterview calls
  endThrew,             \* a handleEndInterview call threw
  completed,            \* number of onComplete(feedback) calls
  lastThrown,           \* the release that threw in the latest teardown
  cleanedAt,            \* initPc at the moment of the first teardown
  unmounted,            \* the component was unmounted
  lastClose,            \* what the latest onclose invocation did
  resets,               \* number of resetSession calls
  decIn,                \* the arguments of a decodeAudioData call
  decOut,               \* what that call produced
  pcmIn,                \* the sample handed to createBlob, in units of 1/SampleDen
  pcmOut,               \* the 16-bit word createBlob stored for it
  shapeIn,              \* the audio fields of a message handed to the handler
  shapeOut,             \* the payload the handler took from it
  micCalls              \* further startRecording calls awaiting their microphone

uiVars == << isConnected, isRecording, isSpeaking, isLoading, error >>
refVars == << sessionRef, mediaStreamRef, audioContextRef, inputAudioContextRef,
              outputGainRef, audioProcessorRef >>
platVars == << ctx, nodes, conns, streams >>
playVars == << audioSources, nextStartTime, src, epoch, currentTurn >>
capVars == << capturedRecording, lastCapture >>
endVars == << cleanups, ends, endThrew, completed, lastThrown, cleanedAt, unmounted >>

codecVars == << decIn, decOut, pcmIn, pcmOut, shapeIn, shapeOut >>

vars == << impl, clock, uiVars, refVars, platVars, playVars, msg, initPc, recPc,
           capVars, endVars, lastClose, resets, codecVars, micCalls >>

\* ---------------------------------------------------------------- helpers
Max(a, b) == IF a >= b THEN a ELSE b

Impls == {"room", "ref"}

Durations == 1..MaxDur

\* The inbound messages the remote side can deliver.  audio is the payload of
\* the message: none, PCM that decodes ("ok", lasting dur ticks), a string
\* that is not base64 ("badBase64") or bytes too short to hold one sample
\* ("badData").
Messages ==
  {[audio |-> "none", dur |-> 0, interrupted |-> TRUE, turnComplete |-> FALSE],
   [audio |-> "none", dur |-> 0, interrupted |-> FALSE, turnComplete |-> TRUE],
   [audio |-> "badBase64", dur |-> 0, interrupted |-> FALSE, turnComplete |-> FALSE],
   [audio |-> "badData", dur |-> 0, interrupted |-> FALSE, turnComplete |-> FALSE],
   [audio |-> "ok", dur |-> 1, interrupted |-> TRUE, turnComplete |-> FALSE]}
  \cup {[audio |-> "ok", dur |-> d, interrupted |-> FALSE, turnComplete |-> FALSE] :
          d \in Durations}

\* The messages delivered in a whole-session run: an interruption, a buffer
\* that decodes and one that does not.
LifeMessages ==
  {m \in Messages : /\ ~m.turnComplete
                    /\ m.audio # "badBase64"
                    /\ m.dur <= 1
                    /\ (m.audio = "none") = m.interrupted}

\* source.stop() on every source of S: a source that is still playing is
\* stopped, and its ended event is then pending.
StopAll(q, S) ==
  [i \in 1..Len(q) |->
     IF i \in S /\ q[i].ph = "playing"
       THEN [q[i] EXCEPT !.ph = "stopped", !.stops = @ + 1]
       ELSE q[i]]

\* No capture callback has run yet.
NoCapture == [fired |-> FALSE, recording |-> FALSE, session |-> FALSE, sent |-> FALSE]

\* No onclose callback has run yet.
NoClose == [fired |-> FALSE, local |-> FALSE, noticed |-> FALSE]

\* The three decodeAudioData functions of the repository: "room" is the one
\* of the current InterviewRoom (interview-room.tsx 921), "old" the one of its
\* earlier version (interview-room.tsx 52), "ref" the one of part_001 (583).
Decoders == {"room", "old", "ref"}

\* The calls of decodeAudioData that are tried: len bytes, c channels.
DecodeInputs == [v : Decoders, len : 0..MaxBytes, c : 1..MaxChannels]

\* No decodeAudioData call has returned yet.
NoDecode == [kind |-> "none", frames |-> 0]

\* ctx.createBuffer(c, n, rate): a buffer of n frames; the Web Audio API
\* throws NotSupportedError when the number of frames is 0.
createBuffer(n) ==
  IF n = 0 THEN [kind |-> "NotSupportedError", frames |-> 0]
           ELSE [kind |-> "buffer", frames |-> n]

\* decodeAudioData(data, ctx, rate, c) for data of len bytes.  "room" checks
\* the number of samples per channel itself; "old" and "ref" hand it to
\* createBuffer unchecked; "old" then views the whole ArrayBuffer as Int16,
\* which throws RangeError for an odd number of bytes.
decodeAudioData(v, len, c) ==
  LET samplesPerChannel == len \div (2 * c)
      buffer == createBuffer(samplesPerChannel)
  IN  CASE v = "room" ->
             IF samplesPerChannel <= 0
               THEN [kind |-> "InvalidAudioData", frames |-> 0]
               ELSE buffer
        [] v = "old" ->
             IF buffer.kind # "buffer" THEN buffer
             ELSE IF len % 2 # 0 THEN [kind |-> "RangeError", frames |-> 0]
             ELSE buffer
        [] OTHER -> buffer

\* ---------------------------------------------------------------- PCM codec
\* A sample is the rational n / SampleDen; createBlob is applied to samples
\* from -(SampleDen + SampleOver) to SampleDen + SampleOver.
Samples == (0 - (SampleDen + SampleOver)) .. (SampleDen + SampleOver)
EncodeInputs == [v : Decoders, n : Samples]
NoWord == [done |-> FALSE, word |-> 0]

Abs(x) == IF x < 0 THEN 0 - x ELSE x

\* The integer part of the rational a / b (b > 0), towards zero: what a store
\* into an Int16Array does to the fraction.
Trunc(a, b) == IF a >= 0 THEN a \div b ELSE 0 - ((0 - a) \div b)

\* Math.round of the rational a / b (b > 0): the nearest integer, a half
\* going up.
Round(a, b) == (2 * a + b) \div (2 * b)

\* Math.max(-32768, Math.min(32767, x)).
Clamp(x) == IF x < 0 - Int16Scale THEN 0 - Int16Scale
            ELSE IF x > Int16Scale - 1 THEN Int16Scale - 1 ELSE x

\* The conversion of an integer stored into an Int16Array: modulo 2^16 into
\* the signed range.
ToInt16(x) == ((x + Int16Scale) % (2 * Int16Scale)) - Int16Scale

\* createBlob's word for the sample n / SampleDen.  "old" stores the product
\* with 32768 unclamped; "room" clamps the product with 32768 and stores it;
\* "ref" rounds the product with 32767 and clamps it.
createBlob(v, n) ==
  CASE v = "old"  -> ToInt16(Trunc(n * Int16Scale, SampleDen))
    [] v = "room" -> ToInt16(Clamp(Trunc(n * Int16Scale, SampleDen)))
    [] OTHER      -> ToInt16(Clamp(Round(n * RefScale, SampleDen)))

\* ------------------------------------------------------- audio extraction
\* The audio fields of a message: parts[0].inlineData.data,
\* parts[0].audio.data and message.data.  0 is an absent (or empty) field,
\* 1..MaxPayload are different payloads.
Payloads == 0..MaxPayload
ShapeInputs == [v : Decoders, inlineData : Payloads, audio : Payloads, data : Payloads]
NoShapes == [v |-> "room", inlineData |-> 0, audio |-> 0, data |-> 0]
NoPayload == [done |-> FALSE, shape |-> "none", payload |-> 0]

\* The payload the handler plays.  "room" looks at inlineData, audio, data in
\* that order; "old" at inlineData, data, audio; "ref" at inlineData only.
extractAudio(m) ==
  LET inl == [done |-> TRUE, shape |-> "inlineData", payload |-> m.inlineData]
      aud == [done |-> TRUE, shape |-> "audio", payload |-> m.audio]
      dat == [done |-> TRUE, shape |-> "data", payload |-> m.data]
      non == [done |-> TRUE, shape |-> "none", payload |-> 0]
  IN  CASE m.v = "room" ->
             IF m.inlineData # 0 THEN inl
             ELSE IF m.audio # 0 THEN aud
             ELSE IF m.data # 0 THEN dat
             ELSE non
        [] m.v = "old" ->
             IF m.inlineData # 0 THEN inl
             ELSE IF m.data # 0 THEN dat
             ELSE IF m.audio # 0 THEN aud
             ELSE non
        [] OTHER ->
             IF m.inlineData # 0 THEN inl ELSE non

\* useState<InterviewState>: the state of the first render.
InitialState == [isConnected |-> FALSE, isRecording |-> FALSE, isSpeaking |-> FALSE]

Init ==
  /\ impl \in Impls
  /\ clock = 0
  /\ isConnected = InitialState.isConnected
  /\ isRecording = InitialState.isRecording
  /\ isSpeaking = InitialState.isSpeaking
  /\ isLoading = TRUE /\ error = "none"
  /\ sessionRef = 0 /\ mediaStreamRef = 0
  /\ audioContextRef = FALSE /\ inputAudioContextRef = FALSE
  /\ outputGainRef = FALSE /\ audioProcessorRef = FALSE
  /\ ctx = [k \in {"out", "in"} |-> [st |-> "none", closes |-> 0]]
  /\ nodes = [k \in {"proc", "gain"} |-> [connected |-> FALSE, disconnects |-> 0]]
  /\ conns = << >> /\ streams = << >>
  /\ audioSources = {} /\ nextStartTime = 0 /\ src = << >> /\ msg = << >>
  /\ epoch = 0 /\ currentTurn = << >>
  /\ initPc = "start" /\ recPc = "idle"
  /\ capturedRecording = FALSE /\ lastCapture = NoCapture
  /\ cleanups = 0 /\ ends = 0 /\ endThrew = FALSE
  /\ completed = 0 /\ lastThrown = "none" /\ cleanedAt = "no"
  /\ unmounted = FALSE
  /\ lastClose = NoClose /\ resets = 0 /\ micCalls = 0
  /\ decIn = [v |-> "room", len |-> 0, c |-> 1] /\ decOut = NoDecode
  /\ pcmIn = [v |-> "room", n |-> 0] /\ pcmOut = NoWord
  /\ shapeIn = NoShapes /\ shapeOut = NoPayload

\* The device clock of the playback context advances while it is running.
Tick(max) ==
  /\ ctx["out"].st = "running"
  /\ clock < max
  /\ clock' = clock + 1
  /\ UNCHANGED << impl, uiVars, refVars, platVars, playVars, msg, initPc, recPc,
                  capVars, endVars,
                  lastClose, resets, codecVars, micCalls >>

\* ------------------------------------------------------- playback scheduler
\* Enqueue without the clamp to the device clock.
EnqueueNoClamp(q, S, nst, d) ==
  [src |-> Append(q, [at |-> nst, dur |-> d, ph |-> "playing", stops |-> 0,
                      now |-> clock, epoch |-> epoch]),
   set |-> S \cup {Len(q) + 1},
   nst |-> nst + d]

\* Enqueue that leaves the cursor at the start of the buffer.
EnqueueNoAdvance(q, S, nst, d) ==
  LET at == Max(nst, clock)
  IN  [src |-> Append(q, [at |-> at, dur |-> d, ph |-> "playing", stops |-> 0,
                          now |-> clock, epoch |-> epoch]),
       set |-> S \cup {Len(q) + 1},
       nst |-> at]

\* The scheduling of one decoded buffer of duration d: the start time is
\* clamped to the device clock, the source is started there, the cursor moves
\* past the buffer and the source joins the active set.
Enqueue(q, S, nst, d) ==
  LET at == Max(nst, clock)
  IN  [src |-> Append(q, [at |-> at, dur |-> d, ph |-> "playing", stops |-> 0,
                          now |-> clock, epoch |-> epoch]),
       set |-> S \cup {Len(q) + 1},
       nst |-> at + d]

\* HandlerEnd whose interruption leaves the cursor where it was.
HandlerEndKeepCursor(m, q, S, nst, sp, ct) ==
  /\ IF m.interrupted
       THEN /\ src' = StopAll(q, S)
            /\ audioSources' = {}
            /\ nextStartTime' = nst
            /\ epoch' = epoch + 1
            /\ isSpeaking' = FALSE
       ELSE /\ src' = q
            /\ audioSources' = S
            /\ nextStartTime' = nst
            /\ epoch' = epoch
            /\ isSpeaking' = sp
  /\ currentTurn' = IF m.turnComplete THEN << >> ELSE ct

\* The end of a message handler: interruption, then turn completion.
\* q, S, nst, sp, ct are the scheduler state, the speaking flag and the
\* current-turn buffer the handler has produced so far.
HandlerEnd(m, q, S, nst, sp, ct) ==
  /\ IF m.interrupted
       THEN /\ src' = StopAll(q, S)
            /\ audioSources' = {}
            /\ nextStartTime' = 0
            /\ epoch' = epoch + 1
            /\ isSpeaking' = FALSE
       ELSE /\ src' = q
            /\ audioSources' = S
            /\ nextStartTime' = nst
            /\ epoch' = epoch
            /\ isSpeaking' = sp
  /\ currentTurn' = IF m.turnComplete THEN << >> ELSE ct

\* What the "room" handler does with the payload of m:
\*   tail     : no audio, go on to the end of the handler
\*   play     : decode succeeds, the buffer is scheduled
\*   fbReject : base64 decoding throws, in the scheduler path and again in
\*              the fallback, which therefore rejects at once
\*   fallback : HTML5 playback of the payload is started and awaited
RoomPath(m) ==
  IF m.audio = "none" THEN "tail"
  ELSE IF m.audio = "badBase64" THEN "fbReject"
  ELSE IF audioContextRef /\ outputGainRef /\ m.audio = "ok" THEN "play"
  ELSE "fallback"

\* handleGeminiMessage of "room", up to its first real suspension.
RoomHandleGeminiMessage(m) ==
  LET n == Len(msg) + 1
      hasAudio == m.audio # "none"
      q1 == IF hasAudio THEN StopAll(src, audioSources) ELSE src
      S1 == IF hasAudio THEN {} ELSE audioSources
      path == RoomPath(m)
      e == Enqueue(q1, S1, nextStartTime, m.dur)
      ct == Append(currentTurn, n)
  IN  IF path = "fallback"
        THEN /\ msg' = Append(msg, [m |-> m, pc |-> "fallback", fb |-> TRUE])
             /\ src' = q1
             /\ audioSources' = S1
             /\ currentTurn' = ct
             /\ UNCHANGED << nextStartTime, epoch, isSpeaking >>
        ELSE /\ msg' = Append(msg, [m |-> m, pc |-> "done", fb |-> FALSE])
             /\ IF path = "play"
                  THEN HandlerEnd(m, e.src, e.set, e.nst, TRUE, ct)
                  ELSE HandlerEnd(m, q1, S1, nextStartTime, isSpeaking, ct)

\* onmessage of "ref": the speaking flag and the clamp come before the
\* decode, a failed decode clears the flag again.
RefOnMessage(m) ==
  LET n == Len(msg) + 1
      nst1 == Max(nextStartTime, clock)
      e == Enqueue(src, audioSources, nst1, m.dur)
      ct == Append(currentTurn, n)
  IN  /\ msg' = Append(msg, [m |-> m, pc |-> "done", fb |-> FALSE])
      /\ IF m.audio # "none" /\ audioContextRef /\ outputGainRef
           THEN IF m.audio = "ok"
                  THEN HandlerEnd(m, e.src, e.set, e.nst, TRUE, ct)
                  ELSE HandlerEnd(m, src, audioSources, nst1, FALSE, ct)
           ELSE HandlerEnd(m, src, audioSources, nextStartTime, isSpeaking, ct)

\* The remote side delivers a message on an open connection.
OnMessage(max, M) ==
  /\ Len(msg) < max
  /\ \E c \in 1..Len(conns) : conns[c].st = "open"
  /\ \E m \in M :
       IF impl = "room" THEN RoomHandleGeminiMessage(m) ELSE RefOnMessage(m)
  /\ UNCHANGED << impl, clock, isConnected, isRecording, isLoading, error,
                  refVars, platVars, initPc, recPc, capVars, endVars,
                  lastClose, resets, codecVars, micCalls >>

\* The fallback playback of message i has ended: playAudioFallback resolves,
\* the handler sets isSpeaking and runs to its end.
FallbackEnded(i) ==
  /\ msg[i].pc = "fallback"
  /\ msg' = [msg EXCEPT ![i].pc = "done"]
  /\ HandlerEnd(msg[i].m, src, audioSources, nextStartTime, TRUE, currentTurn)
  /\ UNCHANGED << impl, clock, isConnected, isRecording, isLoading, error,
                  refVars, platVars, initPc, recPc, capVars, endVars,
                  lastClose, resets, codecVars, micCalls >>

\* The fallback playback of message i fails: playAudioFallback rejects, the
\* handler only reports it and runs to its end.
FallbackFailed(i) ==
  /\ msg[i].pc = "fallback"
  /\ msg' = [msg EXCEPT ![i].pc = "done"]
  /\ HandlerEnd(msg[i].m, src, audioSources, nextStartTime, isSpeaking, currentTurn)
  /\ UNCHANGED << impl, clock, isConnected, isRecording, isLoading, error,
                  refVars, platVars, initPc, recPc, capVars, endVars,
                  lastClose, resets, codecVars, micCalls >>

\* SourceEnded that leaves the speaking flag as it is.
SourceEndedKeepsSpeaking(s) ==
  /\ \/ src[s].ph = "stopped"
     \/ src[s].ph = "playing" /\ clock >= src[s].at + src[s].dur
  /\ src' = [src EXCEPT ![s].ph = "ended"]
  /\ audioSources' = audioSources \ {s}
  /\ UNCHANGED << impl, clock, isConnected, isRecording, isSpeaking, isLoading,
                  error, nextStartTime, epoch, currentTurn, msg,
                  refVars, platVars, initPc, recPc, capVars, endVars,
                  lastClose, resets, codecVars, micCalls >>

\* SourceEnded that also resets the cursor when the last source has ended.
SourceEndedResetsCursor(s) ==
  /\ \/ src[s].ph = "stopped"
     \/ src[s].ph = "playing" /\ clock >= src[s].at + src[s].dur
  /\ src' = [src EXCEPT ![s].ph = "ended"]
  /\ audioSources' = audioSources \ {s}
  /\ isSpeaking' = IF audioSources' = {} THEN FALSE ELSE isSpeaking
  /\ nextStartTime' = IF audioSources' = {} THEN 0 ELSE nextStartTime
  /\ UNCHANGED << impl, clock, isConnected, isRecording, isLoading, error,
                  epoch, currentTurn, msg,
                  refVars, platVars, initPc, recPc, capVars, endVars,
                  lastClose, resets, codecVars, micCalls >>

\* The ended event of source s is delivered: after its natural end, or after
\* stop() was called on it.
SourceEnded(s) ==
  /\ \/ src[s].ph = "stopped"
     \/ src[s].ph = "playing" /\ clock >= src[s].at + src[s].dur
  /\ src' = [src EXCEPT ![s].ph = "ended"]
  /\ audioSources' = audioSources \ {s}
  /\ isSpeaking' = IF audioSources' = {} THEN FALSE ELSE isSpeaking
  /\ UNCHANGED << impl, clock, isConnected, isRecording, isLoading, error,
                  nextStartTime, epoch, currentTurn, msg,
                  refVars, platVars, initPc, recPc, capVars, endVars,
                  lastClose, resets, codecVars, micCalls >>

\* ------------------------------------------------------------ start-up
MicErrors == {"NotAllowedError", "NotFoundError", "NotReadableError", "other"}

\* The user-facing message initializeSession derives from a getUserMedia error.
MicMessage(k) ==
  CASE k = "NotAllowedError" -> "Microphone permission denied"
    [] k = "NotFoundError" -> "No microphone found"
    [] k = "NotReadableError" -> "Microphone is already in use"
    [] OTHER -> "Microphone access failed"

\* "room": the mount effect calls initializeSession, which requests the
\* microphone.  "ref": the mount effect calls initAudio, which creates both
\* contexts (in state cs) and the gain nodes, and then initSession.
Mount(cs) ==
  /\ initPc = "start"
  /\ isLoading' = TRUE
  /\ IF impl = "room"
       THEN /\ cs = "running"
            /\ error' = "none"
            /\ initPc' = "mic"
            /\ UNCHANGED << refVars, platVars, playVars >>
       ELSE /\ ctx' = [k \in {"out", "in"} |-> [st |-> cs, closes |-> 0]]
            /\ audioContextRef' = TRUE /\ inputAudioContextRef' = TRUE
            /\ outputGainRef' = TRUE
            /\ nodes' = [nodes EXCEPT !["gain"].connected = TRUE]
            /\ nextStartTime' = clock
            /\ initPc' = "import"
            /\ UNCHANGED << error, sessionRef, mediaStreamRef, audioProcessorRef,
                            conns, streams, audioSources, src, epoch, currentTurn >>
  /\ UNCHANGED << impl, clock, isConnected, isRecording, isSpeaking, msg, recPc,
                  capVars, endVars,
                  lastClose, resets, codecVars, micCalls >>

\* setupAudioProcessing of "room" once the context is running: the refs, the
\* output gain, the cursor, and the capture callback, which closes over the
\* state of the render that created initializeSession (the first one).
AudioSetup ==
  /\ audioContextRef' = TRUE
  /\ outputGainRef' = TRUE
  /\ audioProcessorRef' = TRUE
  /\ nodes' = [k \in {"proc", "gain"} |-> [nodes[k] EXCEPT !.connected = TRUE]]
  /\ nextStartTime' = clock
  /\ capturedRecording' = InitialState.isRecording

\* getUserMedia resolves in "room"; the new context starts in state cs and is
\* resumed first when it is suspended.
RoomMicGranted(cs) ==
  /\ impl = "room" /\ initPc = "mic"
  /\ streams' = Append(streams, [live |-> TRUE, stops |-> 0])
  /\ mediaStreamRef' = Len(streams) + 1
  /\ IF cs = "suspended"
       THEN /\ ctx' = [ctx EXCEPT !["out"].st = "suspended"]
            /\ initPc' = "resume"
            /\ UNCHANGED << audioContextRef, outputGainRef, audioProcessorRef,
                            nodes, nextStartTime, capturedRecording >>
       ELSE /\ ctx' = [ctx EXCEPT !["out"].st = "running"]
            /\ AudioSetup
            /\ initPc' = "import"
  /\ UNCHANGED << impl, clock, uiVars, sessionRef, inputAudioContextRef, conns,
                  audioSources, src, epoch, currentTurn, msg, recPc, lastCapture, endVars,
                  lastClose, resets, codecVars, micCalls >>

\* audioContext.resume() of setupAudioProcessing resolves.
RoomResumed ==
  /\ impl = "room" /\ initPc = "resume"
  /\ ctx' = [ctx EXCEPT !["out"].st = "running"]
  /\ AudioSetup
  /\ initPc' = "import"
  /\ UNCHANGED << impl, clock, uiVars, sessionRef, mediaStreamRef,
                  inputAudioContextRef, conns, streams, audioSources, src, epoch,
                  currentTurn, msg, recPc, lastCapture, endVars,
                  lastClose, resets, codecVars, micCalls >>

\* getUserMedia rejects in "room": initializeSession ends with an error message.
RoomMicFailed(k) ==
  /\ impl = "room" /\ initPc = "mic"
  /\ error' = MicMessage(k)
  /\ isLoading' = FALSE
  /\ initPc' = "failed"
  /\ UNCHANGED << impl, clock, isConnected, isRecording, isSpeaking, refVars,
                  platVars, playVars, msg, recPc, capVars, endVars,
                  lastClose, resets, codecVars, micCalls >>

\* The dynamic import resolves and live.connect() creates the connection.
\* "reimport" and "reconnect" are the positions of the initSession call that
\* resetSession makes.
ImportDone ==
  /\ initPc \in {"import", "reimport"}
  /\ conns' = Append(conns, [st |-> "connecting", closes |-> 0,
                             timer |-> "none", boot |-> 0])
  /\ initPc' = IF initPc = "import" THEN "connect" ELSE "reconnect"
  /\ UNCHANGED << impl, clock, uiVars, refVars, ctx, nodes, streams, playVars,
                  msg, recPc, capVars, endVars,
                  lastClose, resets, codecVars, micCalls >>

\* The connection opens: onopen runs, connect() resolves, the handle is
\* stored, the bootstrap timer is armed and the initialization finishes.
ConnectOpened ==
  /\ initPc \in {"connect", "reconnect"}
  /\ conns[Len(conns)].st = "connecting"
  /\ conns' = [conns EXCEPT ![Len(conns)].st = "open", ![Len(conns)].timer = "armed"]
  /\ isConnected' = TRUE
  /\ sessionRef' = Len(conns)
  /\ isLoading' = FALSE
  /\ initPc' = "done"
  /\ UNCHANGED << impl, clock, isRecording, isSpeaking, error, mediaStreamRef,
                  audioContextRef, inputAudioContextRef, outputGainRef,
                  audioProcessorRef, ctx, nodes, streams, playVars, msg, recPc,
                  capVars, endVars,
                  lastClose, resets, codecVars, micCalls >>

\* connect() rejects: the initialization ends with an error message.  The
\* initSession call of resetSession is not awaited: its rejection is dropped.
ConnectFailed ==
  /\ initPc \in {"connect", "reconnect"}
  /\ conns[Len(conns)].st = "connecting"
  /\ conns' = [conns EXCEPT ![Len(conns)].st = "closed"]
  /\ IF initPc = "connect"
       THEN error' = "Session initialization failed" /\ initPc' = "failed"
       ELSE UNCHANGED error /\ initPc' = "done"
  /\ isLoading' = FALSE
  /\ UNCHANGED << impl, clock, isConnected, isRecording, isSpeaking, refVars,
                  ctx, nodes, streams, playVars, msg, recPc, capVars,
                  endVars,
                  lastClose, resets, codecVars, micCalls >>

\* The 500 ms timer armed for connection c fires: the bootstrap turn goes to
\* whatever sessionRef holds then, if anything.
BootstrapTimer(c) ==
  /\ conns[c].timer = "armed"
  /\ conns' = IF sessionRef = 0
                THEN [conns EXCEPT ![c].timer = "fired"]
                ELSE [[conns EXCEPT ![c].timer = "fired"]
                        EXCEPT ![sessionRef].boot = @ + 1]
  /\ UNCHANGED << impl, clock, uiVars, refVars, ctx, nodes, streams, playVars,
                  msg, initPc, recPc, capVars, endVars,
                  lastClose, resets, codecVars, micCalls >>

\* onerror: "room" filters the known-benign messages, "ref" shows every one.
OnError(benign) ==
  /\ \E c \in 1..Len(conns) : conns[c].st = "open"
  /\ error' = IF impl = "room" /\ benign THEN error ELSE "Session error"
  /\ UNCHANGED << impl, clock, isConnected, isRecording, isSpeaking, isLoading,
                  refVars, platVars, playVars, msg, initPc, recPc, capVars, endVars,
                  lastClose, resets, codecVars, micCalls >>

\* The reason of a CloseEvent: it comes from the close frame of the remote
\* side, also when session.close() started the close.
Reasons == {"user_initiated", "other"}

\* onclose of connection c: the remote side closed it, or the close that
\* session.close() started has completed.  "room" raises the
\* unexpected-termination notice unless the reason is 'user_initiated';
\* "ref" only writes the reason to the status line.
OnClose(c, reason) ==
  /\ conns[c].st \in {"open", "closing"}
  /\ conns' = [conns EXCEPT ![c].st = "closed"]
  /\ isConnected' = FALSE
  /\ lastClose' = [fired |-> TRUE,
                    local |-> conns[c].closes > 0,
                    noticed |-> impl = "room" /\ reason # "user_initiated"]
  /\ UNCHANGED << impl, clock, isRecording, isSpeaking, isLoading, error,
                  refVars, ctx, nodes, streams, playVars, msg, initPc, recPc,
                  capVars, endVars,
                  resets, codecVars, micCalls >>

\* ------------------------------------------------------------ recording
\* The controls are rendered once loading is over and no error is shown.
ControlsShown == ~unmounted /\ ~isLoading /\ error = "none"

\* The browser suspends the running playback context of "room".
CtxSuspended ==
  /\ impl = "room"
  /\ audioContextRef /\ ctx["out"].st = "running"
  /\ ctx' = [ctx EXCEPT !["out"].st = "suspended"]
  /\ UNCHANGED << impl, clock, uiVars, refVars, nodes, conns, streams, playVars,
                  msg, initPc, recPc, capVars, endVars,
                  lastClose, resets, codecVars, micCalls >>

\* toggleRecording of "room" up to the await of resume(), or to its end.
ToggleRecording ==
  /\ impl = "room" /\ ControlsShown
  /\ recPc = "idle"
  /\ IF ~isConnected
       THEN UNCHANGED << isRecording, recPc >>
       ELSE IF audioContextRef /\ ctx["out"].st = "suspended"
              THEN recPc' = "resume" /\ UNCHANGED isRecording
              ELSE isRecording' = ~isRecording /\ UNCHANGED recPc
  /\ UNCHANGED << impl, clock, isConnected, isSpeaking, isLoading, error,
                  refVars, platVars, playVars, msg, initPc, capVars, endVars,
                  lastClose, resets, codecVars, micCalls >>

\* resume() of toggleRecording settles: resolved (ok) the flag is flipped,
\* rejected the call returns.  resume() of a closed context rejects.
ToggleResumed(ok) ==
  /\ impl = "room" /\ recPc = "resume"
  /\ recPc' = "idle"
  /\ IF ok /\ ctx["out"].st # "closed"
       THEN /\ ctx' = [ctx EXCEPT !["out"].st = "running"]
            /\ isRecording' = ~isRecording
       ELSE UNCHANGED << ctx, isRecording >>
  /\ UNCHANGED << impl, clock, isConnected, isSpeaking, isLoading, error,
                  refVars, nodes, conns, streams, playVars, msg, initPc,
                  capVars, endVars,
                  lastClose, resets, codecVars, micCalls >>

\* stopRecording of "ref" as called from a closure that sees state.isRecording
\* = rec; f is the release that throws when it is called.  scriptProcessorRef
\* and sourceNodeRef are set and cleared together and are modelled by
\* audioProcessorRef.  The result holds the fields that stopRecording changes.
StopRec(rec, f) ==
  IF ~rec /\ mediaStreamRef = 0
    THEN [thrown |-> "none", isRecording |-> isRecording,
          proc |-> audioProcessorRef, nodes |-> nodes, streams |-> streams,
          stream |-> mediaStreamRef]
    ELSE
      LET t1 == audioProcessorRef /\ f = "processor"
          t2 == ~t1 /\ mediaStreamRef # 0 /\ f = "track"
      IN  [thrown |-> IF t1 THEN "processor" ELSE IF t2 THEN "track" ELSE "none",
           isRecording |-> FALSE,
           proc |-> IF t1 THEN audioProcessorRef ELSE FALSE,
           nodes |-> IF audioProcessorRef /\ ~t1
                       THEN [nodes EXCEPT !["proc"].connected = FALSE,
                                          !["proc"].disconnects = @ + 1]
                       ELSE nodes,
           streams |-> IF ~t1 /\ ~t2 /\ mediaStreamRef # 0
                         THEN [streams EXCEPT ![mediaStreamRef].live = FALSE,
                                              ![mediaStreamRef].stops = @ + 1]
                         ELSE streams,
           stream |-> IF t1 \/ t2 THEN mediaStreamRef ELSE 0]

\* The state after stopRecording returned or threw.
ApplyStopRec(r) ==
  /\ isRecording' = r.isRecording
  /\ audioProcessorRef' = r.proc
  /\ nodes' = r.nodes
  /\ streams' = r.streams
  /\ mediaStreamRef' = r.stream

\* startRecording of "ref" up to the await of resume().
StartRecording ==
  /\ impl = "ref" /\ ControlsShown
  /\ isConnected
  /\ ~(isRecording \/ ~inputAudioContextRef \/ sessionRef = 0)
  /\ recPc = "idle"
  /\ Len(streams) < MaxStreams
  /\ recPc' = "resume"
  /\ UNCHANGED << impl, clock, uiVars, refVars, platVars, playVars, msg, initPc,
                  capVars, endVars,
                  lastClose, resets, codecVars, micCalls >>

\* resume() of the capture context settles; resolved, getUserMedia is called,
\* rejected (a closed context), the catch block calls stopRecording.
StartResumed ==
  /\ impl = "ref" /\ recPc = "resume"
  /\ IF ctx["in"].st = "closed"
       THEN /\ recPc' = "idle"
            /\ ApplyStopRec(StopRec(FALSE, "none"))
            /\ UNCHANGED ctx
       ELSE /\ recPc' = "mic"
            /\ ctx' = [ctx EXCEPT !["in"].st = "running"]
            /\ UNCHANGED << isRecording, audioProcessorRef, nodes, streams,
                            mediaStreamRef >>
  /\ UNCHANGED << impl, clock, isConnected, isSpeaking, isLoading, error,
                  sessionRef, audioContextRef, inputAudioContextRef,
                  outputGainRef, conns, playVars, msg, initPc, capVars,
                  endVars,
                  lastClose, resets, codecVars, micCalls >>

\* getUserMedia of startRecording resolves: the stream is stored, the capture
\* chain is built and its callback closes over the state of the render that
\* created startRecording, in which isRecording was false.  Without a capture
\* context the chain cannot be built and the catch block calls stopRecording.
StartMicGranted ==
  /\ impl = "ref" /\ recPc = "mic"
  /\ recPc' = "idle"
  /\ LET granted == Append(streams, [live |-> TRUE, stops |-> 0])
         id == Len(streams) + 1
     IN  IF inputAudioContextRef
           THEN /\ streams' = granted
                /\ mediaStreamRef' = id
                /\ audioProcessorRef' = TRUE
                /\ nodes' = [nodes EXCEPT !["proc"].connected = TRUE]
                /\ capturedRecording' = FALSE
                /\ isRecording' = TRUE
           ELSE /\ streams' = [granted EXCEPT ![id].live = FALSE, ![id].stops = 1]
                /\ mediaStreamRef' = 0
                /\ audioProcessorRef' = FALSE
                /\ isRecording' = FALSE
                /\ UNCHANGED << nodes, capturedRecording >>
  /\ UNCHANGED << impl, clock, isConnected, isSpeaking, isLoading, error,
                  sessionRef, audioContextRef, inputAudioContextRef,
                  outputGainRef, ctx, conns, playVars, msg, initPc, lastCapture, endVars,
                  lastClose, resets, codecVars, micCalls >>

\* getUserMedia of startRecording rejects: the catch block calls stopRecording.
StartMicFailed ==
  /\ impl = "ref" /\ recPc = "mic"
  /\ recPc' = "idle"
  /\ ApplyStopRec(StopRec(FALSE, "none"))
  /\ UNCHANGED << impl, clock, isConnected, isSpeaking, isLoading, error,
                  sessionRef, audioContextRef, inputAudioContextRef,
                  outputGainRef, ctx, conns, playVars, msg, initPc, capVars, endVars,
                  lastClose, resets, codecVars, micCalls >>

\* startRecording of "ref" invoked again while an earlier invocation is still
\* awaiting its microphone: isRecording is still false, so the guard lets it
\* through to its own getUserMedia request.
StartRecordingAgain ==
  /\ impl = "ref" /\ ControlsShown
  /\ isConnected
  /\ ~(isRecording \/ ~inputAudioContextRef \/ sessionRef = 0)
  /\ recPc \in {"resume", "mic"}
  /\ micCalls < MaxMicCalls
  /\ Len(streams) + micCalls + 1 < MaxStreams
  /\ micCalls' = micCalls + 1
  /\ UNCHANGED << impl, clock, uiVars, refVars, platVars, playVars, msg, initPc,
                  recPc, capVars, endVars,
                  lastClose, resets, codecVars >>

\* getUserMedia of a further invocation resolves: as in StartMicGranted, the
\* stream is stored over whatever mediaStreamRef held and the chain is built.
AgainMicGranted ==
  /\ impl = "ref" /\ micCalls > 0
  /\ micCalls' = micCalls - 1
  /\ LET granted == Append(streams, [live |-> TRUE, stops |-> 0])
         id == Len(streams) + 1
     IN  IF inputAudioContextRef /\ ctx["in"].st # "closed"
           THEN /\ streams' = granted
                /\ mediaStreamRef' = id
                /\ audioProcessorRef' = TRUE
                /\ nodes' = [nodes EXCEPT !["proc"].connected = TRUE]
                /\ capturedRecording' = FALSE
                /\ isRecording' = TRUE
           ELSE /\ ApplyStopRec(StopRec(FALSE, "none"))
                /\ UNCHANGED capturedRecording
  /\ UNCHANGED << impl, clock, isConnected, isSpeaking, isLoading, error,
                  sessionRef, audioContextRef, inputAudioContextRef,
                  outputGainRef, ctx, conns, playVars, msg, initPc, recPc,
                  lastCapture, endVars,
                  lastClose, resets, codecVars >>

\* getUserMedia of a further invocation rejects: the catch block calls
\* stopRecording, which stops whatever stream mediaStreamRef holds.
AgainMicFailed ==
  /\ impl = "ref" /\ micCalls > 0
  /\ micCalls' = micCalls - 1
  /\ ApplyStopRec(StopRec(FALSE, "none"))
  /\ UNCHANGED << impl, clock, isConnected, isSpeaking, isLoading, error,
                  sessionRef, audioContextRef, inputAudioContextRef,
                  outputGainRef, ctx, conns, playVars, msg, initPc, recPc,
                  capVars, endVars,
                  lastClose, resets, codecVars >>

\* The Stop button of "ref".
StopRecording ==
  /\ impl = "ref" /\ ControlsShown
  /\ isRecording
  /\ ApplyStopRec(StopRec(isRecording, "none"))
  /\ UNCHANGED << impl, clock, isConnected, isSpeaking, isLoading, error,
                  sessionRef, audioContextRef, inputAudioContextRef,
                  outputGainRef, ctx, conns, playVars, msg, initPc, recPc,
                  capVars, endVars,
                  lastClose, resets, codecVars, micCalls >>

\* One invocation of the capture callback onaudioprocess: a packet is sent
\* when the flag the callback closed over is true and a session handle is set.
OnAudioProcess ==
  /\ nodes["proc"].connected
  /\ ctx[IF impl = "room" THEN "out" ELSE "in"].st = "running"
  /\ lastCapture' = [fired |-> TRUE,
                      recording |-> isRecording,
                      session |-> sessionRef # 0,
                      sent |-> capturedRecording /\ sessionRef # 0]
  /\ UNCHANGED << impl, clock, uiVars, refVars, platVars, playVars, msg, initPc,
                  recPc, capturedRecording, endVars,
                  lastClose, resets, codecVars, micCalls >>

\* ------------------------------------------------------------- teardown
\* The releases of a teardown that can be made to throw.
Faults == {"none", "session", "track", "processor", "gain"}

\* session.close() returned: an open connection starts closing.
CloseConn(cs, c) ==
  [cs EXCEPT ![c].closes = @ + 1,
             ![c].st = IF @ = "open" THEN "closing" ELSE @]

\* context.close() on the context k when its ref is set and it is not closed.
CloseCtx(cx, k, held) ==
  IF held /\ cx[k].st # "closed"
    THEN [cx EXCEPT ![k].st = "closed", ![k].closes = @ + 1]
    ELSE cx

\* The Reset button of "ref", enabled while not recording: resetSession
\* closes the session without clearing sessionRef, clears the connected and
\* speaking flags and the current turn and calls initSession again, which
\* throws at once when a context ref is missing.  A reset waits for the
\* initialization before it to finish.
ResetSession ==
  /\ impl = "ref" /\ ControlsShown
  /\ ~isRecording
  /\ initPc = "done"
  /\ resets < MaxResets
  /\ resets' = resets + 1
  /\ conns' = IF sessionRef # 0 THEN CloseConn(conns, sessionRef) ELSE conns
  /\ isConnected' = FALSE
  /\ isSpeaking' = FALSE
  /\ currentTurn' = << >>
  /\ initPc' = IF inputAudioContextRef /\ audioContextRef THEN "reimport" ELSE initPc
  /\ UNCHANGED << impl, clock, isRecording, isLoading, error, refVars, ctx, nodes,
                  streams, audioSources, nextStartTime, src, epoch, msg, recPc,
                  capVars, endVars, lastClose, codecVars, micCalls >>

\* The Reset button pressed again while the connect of an earlier reset is
\* still pending: resetSession closes what sessionRef holds and calls
\* initSession once more, whose connect() runs beside the pending one.
ResetSessionAgain ==
  /\ impl = "ref" /\ ControlsShown
  /\ ~isRecording
  /\ initPc = "reconnect"
  /\ inputAudioContextRef /\ audioContextRef
  /\ Len(conns) < MaxConns
  /\ resets' = resets + 1
  /\ conns' = Append(IF sessionRef # 0 THEN CloseConn(conns, sessionRef) ELSE conns,
                     [st |-> "connecting", closes |-> 0, timer |-> "none", boot |-> 0])
  /\ isConnected' = FALSE
  /\ isSpeaking' = FALSE
  /\ currentTurn' = << >>
  /\ UNCHANGED << impl, clock, isRecording, isLoading, error, refVars, ctx, nodes,
                  streams, audioSources, nextStartTime, src, epoch, msg, initPc,
                  recPc, capVars, endVars, lastClose, codecVars, micCalls >>

\* The connect() of an earlier initSession call opens after a later call was
\* made: onopen runs and the handle is stored over whatever sessionRef held.
EarlierConnectOpened(c) ==
  /\ c < Len(conns)
  /\ conns[c].st = "connecting"
  /\ conns' = [conns EXCEPT ![c].st = "open", ![c].timer = "armed"]
  /\ isConnected' = TRUE
  /\ sessionRef' = c
  /\ UNCHANGED << impl, clock, isRecording, isSpeaking, isLoading, error,
                  mediaStreamRef, audioContextRef, inputAudioContextRef,
                  outputGainRef, audioProcessorRef, ctx, nodes, streams, playVars,
                  msg, initPc, recPc, capVars, endVars,
                  lastClose, resets, codecVars, micCalls >>

\* The connect() of an earlier initSession call rejects: the call was not
\* awaited and its rejection is dropped.
EarlierConnectFailed(c) ==
  /\ c < Len(conns)
  /\ conns[c].st = "connecting"
  /\ conns' = [conns EXCEPT ![c].st = "closed"]
  /\ UNCHANGED << impl, clock, uiVars, refVars, ctx, nodes, streams, playVars,
                  msg, initPc, recPc, capVars, endVars,
                  lastClose, resets, codecVars, micCalls >>

\* cleanupSession of "room": one try block around every release, so the
\* first release that throws ends the teardown.  f is the release that
\* throws when called.  The statements are numbered 1 session, 2 sources,
\* 3 tracks, 4 context, 5 processor, 6 gain, 7 cursor and state; stage is the
\* statement that throws (10: none).  The hidden <audio> element of the
\* component never plays anything and is left out.
RoomCleanupSession(f) ==
  LET t == IF f = "session" /\ sessionRef # 0 THEN "session"
           ELSE IF f = "track" /\ mediaStreamRef # 0 THEN "track"
           ELSE IF f = "processor" /\ audioProcessorRef THEN "processor"
           ELSE IF f = "gain" /\ outputGainRef THEN "gain"
           ELSE "none"
      stage == CASE t = "session" -> 1 [] t = "track" -> 3
                 [] t = "processor" -> 5 [] t = "gain" -> 6 [] OTHER -> 10
      closeIt == audioContextRef /\ ctx["out"].st # "closed"
  IN  [thrown |-> t,
       sessionRef |-> IF stage > 1 THEN 0 ELSE sessionRef,
       conns |-> IF stage > 1 /\ sessionRef # 0
                   THEN CloseConn(conns, sessionRef) ELSE conns,
       src |-> IF stage > 1 THEN StopAll(src, audioSources) ELSE src,
       audioSources |-> IF stage > 1 THEN {} ELSE audioSources,
       streams |-> IF stage > 3 /\ mediaStreamRef # 0
                     THEN [streams EXCEPT ![mediaStreamRef].live = FALSE,
                                          ![mediaStreamRef].stops = @ + 1]
                     ELSE streams,
       mediaStreamRef |-> IF stage > 3 THEN 0 ELSE mediaStreamRef,
       ctx |-> IF stage > 3 THEN CloseCtx(ctx, "out", audioContextRef) ELSE ctx,
       audioContextRef |-> IF stage > 3 /\ closeIt THEN FALSE ELSE audioContextRef,
       inputAudioContextRef |-> inputAudioContextRef,
       audioProcessorRef |-> IF stage > 5 THEN FALSE ELSE audioProcessorRef,
       outputGainRef |-> IF stage > 6 THEN FALSE ELSE outputGainRef,
       nodes |-> [k \in {"proc", "gain"} |->
                    IF \/ k = "proc" /\ stage > 5 /\ audioProcessorRef
                       \/ k = "gain" /\ stage > 6 /\ outputGainRef
                      THEN [connected |-> FALSE,
                            disconnects |-> nodes[k].disconnects + 1]
                      ELSE nodes[k]],
       nextStartTime |-> IF stage > 6 THEN 0 ELSE nextStartTime,
       epoch |-> IF stage > 6 THEN epoch + 1 ELSE epoch,
       isConnected |-> IF stage > 6 THEN FALSE ELSE isConnected,
       isSpeaking |-> IF stage > 6 THEN FALSE ELSE isSpeaking,
       isRecording |-> IF stage > 6 THEN FALSE ELSE isRecording]

\* cleanup of "ref": stopRecording, the sources, the session, both contexts,
\* the node refs and the cursor, with no try block around stopRecording and
\* session.close(): the first release that throws ends the teardown and the
\* exception leaves cleanup.  rec is state.isRecording as the closure sees it.
RefCleanup(rec, f) ==
  LET r == StopRec(rec, f)
      t == IF r.thrown # "none" THEN r.thrown
           ELSE IF f = "session" /\ sessionRef # 0 THEN "session"
           ELSE "none"
      stage == IF r.thrown # "none" THEN 1 ELSE IF t = "session" THEN 3 ELSE 10
  IN  [thrown |-> t,
       isRecording |-> r.isRecording,
       audioProcessorRef |-> r.proc,
       nodes |-> r.nodes,
       streams |-> r.streams,
       mediaStreamRef |-> r.stream,
       src |-> IF stage > 1 THEN StopAll(src, audioSources) ELSE src,
       audioSources |-> IF stage > 1 THEN {} ELSE audioSources,
       sessionRef |-> IF stage > 3 THEN 0 ELSE sessionRef,
       conns |-> IF stage > 3 /\ sessionRef # 0
                   THEN CloseConn(conns, sessionRef) ELSE conns,
       ctx |-> IF stage > 3
                 THEN CloseCtx(CloseCtx(ctx, "in", inputAudioContextRef),
                               "out", audioContextRef)
                 ELSE ctx,
       inputAudioContextRef |->
         IF stage > 3 /\ ctx["in"].st # "closed" THEN FALSE ELSE inputAudioContextRef,
       audioContextRef |->
         IF stage > 3 /\ ctx["out"].st # "closed" THEN FALSE ELSE audioContextRef,
       outputGainRef |-> IF stage > 3 THEN FALSE ELSE outputGainRef,
       nextStartTime |-> IF stage > 3 THEN 0 ELSE nextStartTime,
       epoch |-> IF stage > 3 THEN epoch + 1 ELSE epoch,
       isConnected |-> isConnected,
       isSpeaking |-> isSpeaking]

\* The teardown of the running implementation.
Teardown(rec, f) ==
  IF impl = "room" THEN RoomCleanupSession(f) ELSE RefCleanup(rec, f)

\* The state a teardown leaves.
ApplyTeardown(P) ==
  /\ sessionRef' = P.sessionRef
  /\ mediaStreamRef' = P.mediaStreamRef
  /\ audioContextRef' = P.audioContextRef
  /\ inputAudioContextRef' = P.inputAudioContextRef
  /\ outputGainRef' = P.outputGainRef
  /\ audioProcessorRef' = P.audioProcessorRef
  /\ ctx' = P.ctx
  /\ nodes' = P.nodes
  /\ conns' = P.conns
  /\ streams' = P.streams
  /\ src' = P.src
  /\ audioSources' = P.audioSources
  /\ nextStartTime' = P.nextStartTime
  /\ epoch' = P.epoch
  /\ isConnected' = P.isConnected
  /\ isSpeaking' = P.isSpeaking
  /\ isRecording' = P.isRecording
  /\ lastThrown' = P.thrown
  /\ cleanups' = cleanups + 1
  /\ cleanedAt' = IF cleanedAt = "no" THEN initPc ELSE cleanedAt

\* The End Interview button: teardown, then the feedback goes to onComplete.
\* An exception that leaves the teardown leaves handleEndInterview too.
HandleEndInterview(f) ==
  /\ ControlsShown
  /\ ends < MaxEnds
  /\ ends' = ends + 1
  /\ LET P == Teardown(isRecording, f)
     IN  /\ ApplyTeardown(P)
         /\ IF impl = "ref" /\ P.thrown # "none"
              THEN endThrew' = TRUE /\ UNCHANGED completed
              ELSE completed' = completed + 1 /\ UNCHANGED endThrew
  /\ UNCHANGED << impl, clock, isLoading, error, currentTurn, msg, initPc,
                  recPc, capVars, unmounted,
                  lastClose, resets, codecVars, micCalls >>

\* The component is unmounted: the cleanup of the mount effect runs, with the
\* closures of the render that ran the effect (the first one).
Unmount(f) ==
  /\ ~unmounted
  /\ initPc # "start"
  /\ unmounted' = TRUE
  /\ ApplyTeardown(Teardown(InitialState.isRecording, f))
  /\ UNCHANGED << impl, clock, isLoading, error, currentTurn, msg, initPc,
                  recPc, capVars, ends, endThrew, completed,
                  lastClose, resets, codecVars, micCalls >>

\* ------------------------------------------------------------------ system
Next ==
  \/ Tick(MaxLifeClock)
  \/ \E cs \in {"running", "suspended"} : Mount(cs)
  \/ \E cs \in {"running", "suspended"} : RoomMicGranted(cs)
  \/ RoomResumed
  \/ \E k \in MicErrors : RoomMicFailed(k)
  \/ ImportDone
  \/ ConnectOpened
  \/ ConnectFailed
  \/ \E c \in 1..Len(conns) : BootstrapTimer(c)
  \/ \E b \in BOOLEAN : OnError(b)
  \/ \E c \in 1..Len(conns), reason \in Reasons : OnClose(c, reason)
  \/ OnMessage(MaxLifeMsgs, LifeMessages)
  \/ \E i \in 1..Len(msg) : FallbackEnded(i)
  \/ \E i \in 1..Len(msg) : FallbackFailed(i)
  \/ \E s \in 1..Len(src) : SourceEnded(s)
  \/ CtxSuspended
  \/ ToggleRecording
  \/ \E ok \in BOOLEAN : ToggleResumed(ok)
  \/ StartRecording
  \/ StartResumed
  \/ StartMicGranted
  \/ StartMicFailed
  \/ StopRecording
  \/ OnAudioProcess
  \/ \E f \in Faults : HandleEndInterview(f)
  \/ \E f \in Faults : Unmount(f)

Spec == Init /\ [][Next]_vars

\* ------------------------------------------------------------ playback runs
\* A session that has started: the state ConnectOpened leaves when nothing
\* else has happened yet.  Playback runs start here and deliver more messages.
Started ==
  /\ impl \in Impls
  /\ clock = 0
  /\ isConnected = TRUE /\ isRecording = FALSE /\ isSpeaking = FALSE
  /\ isLoading = FALSE /\ error = "none"
  /\ sessionRef = 1
  /\ mediaStreamRef = IF impl = "room" THEN 1 ELSE 0
  /\ audioContextRef = TRUE
  /\ inputAudioContextRef = (impl = "ref")
  /\ outputGainRef = TRUE
  /\ audioProcessorRef = (impl = "room")
  /\ ctx = [k \in {"out", "in"} |->
             [st |-> IF impl = "room" /\ k = "in" THEN "none" ELSE "running",
              closes |-> 0]]
  /\ nodes = [k \in {"proc", "gain"} |->
               [connected |-> (k = "gain" \/ impl = "room"), disconnects |-> 0]]
  /\ conns = << [st |-> "open", closes |-> 0, timer |-> "armed", boot |-> 0] >>
  /\ streams = IF impl = "room" THEN << [live |-> TRUE, stops |-> 0] >> ELSE << >>
  /\ audioSources = {} /\ nextStartTime = 0 /\ src = << >> /\ msg = << >>
  /\ epoch = 0 /\ currentTurn = << >>
  /\ initPc = "done" /\ recPc = "idle"
  /\ capturedRecording = FALSE /\ lastCapture = NoCapture
  /\ cleanups = 0 /\ ends = 0 /\ endThrew = FALSE
  /\ completed = 0 /\ lastThrown = "none" /\ cleanedAt = "no"
  /\ unmounted = FALSE
  /\ lastClose = NoClose /\ resets = 0 /\ micCalls = 0
  /\ decIn = [v |-> "room", len |-> 0, c |-> 1] /\ decOut = NoDecode
  /\ pcmIn = [v |-> "room", n |-> 0] /\ pcmOut = NoWord
  /\ shapeIn = NoShapes /\ shapeOut = NoPayload

NextPlay ==
  \/ Tick(MaxClock)
  \/ OnMessage(MaxMsgs, Messages)
  \/ \E i \in 1..Len(msg) : FallbackEnded(i)
  \/ \E i \in 1..Len(msg) : FallbackFailed(i)
  \/ \E s \in 1..Len(src) : SourceEnded(s)

SpecPlay == Started /\ [][NextPlay]_vars

\* ------------------------------------------------- playback run to its end
\* The device clock keeps advancing while a scheduled buffer has not played
\* to its end.
TickWhilePlaying(max) ==
  /\ ctx["out"].st = "running"
  /\ \/ clock < max
     \/ \E s \in 1..Len(src) :
          src[s].ph = "playing" /\ clock < src[s].at + src[s].dur
  /\ clock' = clock + 1
  /\ UNCHANGED << impl, uiVars, refVars, platVars, playVars, msg, initPc, recPc,
                  capVars, endVars,
                  lastClose, resets, codecVars, micCalls >>

NextSpeak ==
  \/ TickWhilePlaying(MaxSpeakClock)
  \/ OnMessage(MaxSpeakMsgs, Messages)
  \/ \E i \in 1..Len(msg) : FallbackEnded(i)
  \/ \E i \in 1..Len(msg) : FallbackFailed(i)
  \/ \E s \in 1..Len(src) : SourceEnded(s)

\* The clock of a running context advances, the ended event of a source that
\* has ended or was stopped is delivered, and the audio element of a fallback
\* playback ends or fails; the remote side need not send anything.
FairSpeak ==
  /\ WF_vars(TickWhilePlaying(MaxSpeakClock))
  /\ \A s \in 1..MaxSpeakMsgs : WF_vars(s <= Len(src) /\ SourceEnded(s))
  /\ \A i \in 1..MaxSpeakMsgs :
       WF_vars(i <= Len(msg) /\ (FallbackEnded(i) \/ FallbackFailed(i)))

SpecSpeak == Started /\ [][NextSpeak]_vars /\ FairSpeak

\* Started is a state of Spec: this is violated when it is reached.
StartedUnreached == ~Started

\* --------------------------------------------- playback runs with teardown
\* Playback in a started session that the End button or an unmount tears down.
NextPlayEnd ==
  \/ Tick(MaxLifeClock)
  \/ OnMessage(MaxEndMsgs, LifeMessages)
  \/ \E i \in 1..Len(msg) : FallbackEnded(i)
  \/ \E i \in 1..Len(msg) : FallbackFailed(i)
  \/ \E s \in 1..Len(src) : SourceEnded(s)
  \/ \E f \in Faults : HandleEndInterview(f)
  \/ \E f \in Faults : Unmount(f)

SpecPlayEnd == Started /\ [][NextPlayEnd]_vars

\* ----------------------------------------------------- runs with a reset
\* A started session of "ref", which has the Reset button: the session is
\* reset, recorded and torn down; no message is delivered.
StartedRef == Started /\ impl = "ref"

NextReset ==
  \/ ResetSession
  \/ ImportDone
  \/ ConnectOpened
  \/ ConnectFailed
  \/ \E c \in 1..Len(conns) : BootstrapTimer(c)
  \/ \E c \in 1..Len(conns), reason \in Reasons : OnClose(c, reason)
  \/ StartRecording
  \/ StartResumed
  \/ StartMicGranted
  \/ StartMicFailed
  \/ StopRecording
  \/ \E f \in Faults : HandleEndInterview(f)
  \/ \E f \in Faults : Unmount(f)

SpecReset == StartedRef /\ [][NextReset]_vars

\* ---------------------------------------------- part_001: overlapping resets
NextOverlap ==
  \/ ResetSession
  \/ ResetSessionAgain
  \/ ImportDone
  \/ ConnectOpened
  \/ ConnectFailed
  \/ \E c \in 1..Len(conns) : EarlierConnectOpened(c)
  \/ \E c \in 1..Len(conns) : EarlierConnectFailed(c)
  \/ \E c \in 1..Len(conns) : BootstrapTimer(c)
  \/ \E c \in 1..Len(conns), reason \in Reasons : OnClose(c, reason)
  \/ \E f \in Faults : HandleEndInterview(f)
  \/ \E f \in Faults : Unmount(f)

SpecOverlap == StartedRef /\ [][NextOverlap]_vars

\* ------------------------------------------ part_001: overlapping recordings
NextRec ==
  \/ StartRecording
  \/ StartRecordingAgain
  \/ StartResumed
  \/ StartMicGranted
  \/ StartMicFailed
  \/ AgainMicGranted
  \/ AgainMicFailed
  \/ StopRecording
  \/ OnAudioProcess
  \/ \E f \in Faults : HandleEndInterview(f)
  \/ \E f \in Faults : Unmount(f)

SpecRec == StartedRef /\ [][NextRec]_vars

\* ------------------------------------------------------------- decoder runs
\* The component is not mounted; one call of decodeAudioData is chosen.
InitDecode ==
  /\ impl = "room"
  /\ clock = 0
  /\ isConnected = InitialState.isConnected
  /\ isRecording = InitialState.isRecording
  /\ isSpeaking = InitialState.isSpeaking
  /\ isLoading = TRUE /\ error = "none"
  /\ sessionRef = 0 /\ mediaStreamRef = 0
  /\ audioContextRef = FALSE /\ inputAudioContextRef = FALSE
  /\ outputGainRef = FALSE /\ audioProcessorRef = FALSE
  /\ ctx = [k \in {"out", "in"} |-> [st |-> "none", closes |-> 0]]
  /\ nodes = [k \in {"proc", "gain"} |-> [connected |-> FALSE, disconnects |-> 0]]
  /\ conns = << >> /\ streams = << >>
  /\ audioSources = {} /\ nextStartTime = 0 /\ src = << >> /\ msg = << >>
  /\ epoch = 0 /\ currentTurn = << >>
  /\ initPc = "start" /\ recPc = "idle"
  /\ capturedRecording = FALSE /\ lastCapture = NoCapture
  /\ cleanups = 0 /\ ends = 0 /\ endThrew = FALSE
  /\ completed = 0 /\ lastThrown = "none" /\ cleanedAt = "no"
  /\ unmounted = FALSE
  /\ lastClose = NoClose /\ resets = 0 /\ micCalls = 0
  /\ decIn \in DecodeInputs /\ decOut = NoDecode
  /\ pcmIn = [v |-> "room", n |-> 0] /\ pcmOut = NoWord
  /\ shapeIn = NoShapes /\ shapeOut = NoPayload

\* The chosen call of decodeAudioData returns or throws.
DecodeCall ==
  /\ decOut = NoDecode
  /\ decOut' = decodeAudioData(decIn.v, decIn.len, decIn.c)
  /\ UNCHANGED << impl, clock, uiVars, refVars, platVars, playVars, msg, initPc,
                  recPc, capVars, endVars, lastClose, resets, decIn, pcmIn, pcmOut,
                  shapeIn, shapeOut, micCalls >>

NextDecode == DecodeCall

SpecDecode == InitDecode /\ [][NextDecode]_vars

\* createBlob applied once to one sample.
InitCodec ==
  /\ impl = "room"
  /\ clock = 0
  /\ isConnected = InitialState.isConnected
  /\ isRecording = InitialState.isRecording
  /\ isSpeaking = InitialState.isSpeaking
  /\ isLoading = TRUE /\ error = "none"
  /\ sessionRef = 0 /\ mediaStreamRef = 0
  /\ audioContextRef = FALSE /\ inputAudioContextRef = FALSE
  /\ outputGainRef = FALSE /\ audioProcessorRef = FALSE
  /\ ctx = [k \in {"out", "in"} |-> [st |-> "none", closes |-> 0]]
  /\ nodes = [k \in {"proc", "gain"} |-> [connected |-> FALSE, disconnects |-> 0]]
  /\ conns = << >> /\ streams = << >>
  /\ audioSources = {} /\ nextStartTime = 0 /\ src = << >> /\ msg = << >>
  /\ epoch = 0 /\ currentTurn = << >>
  /\ initPc = "start" /\ recPc = "idle"
  /\ capturedRecording = FALSE /\ lastCapture = NoCapture
  /\ cleanups = 0 /\ ends = 0 /\ endThrew = FALSE
  /\ completed = 0 /\ lastThrown = "none" /\ cleanedAt = "no"
  /\ unmounted = FALSE
  /\ lastClose = NoClose /\ resets = 0 /\ micCalls = 0
  /\ decIn = [v |-> "room", len |-> 0, c |-> 1] /\ decOut = NoDecode
  /\ pcmIn \in EncodeInputs /\ pcmOut = NoWord
  /\ shapeIn = NoShapes /\ shapeOut = NoPayload

\* The chosen call of createBlob stores its word.

EncodeCall ==
  /\ ~pcmOut.done
  /\ pcmOut' = [done |-> TRUE, word |-> createBlob(pcmIn.v, pcmIn.n)]
  /\ UNCHANGED << impl, clock, uiVars, refVars, platVars, playVars, msg, initPc,
                  recPc, capVars, endVars, lastClose, resets, decIn, decOut, pcmIn,
                  shapeIn, shapeOut, micCalls >>

NextCodec == EncodeCall

SpecCodec == InitCodec /\ [][NextCodec]_vars

\* The audio extraction of the message handler applied to one message.
InitExtract ==
  /\ impl = "room"
  /\ clock = 0
  /\ isConnected = InitialState.isConnected
  /\ isRecording = InitialState.isRecording
  /\ isSpeaking = InitialState.isSpeaking
  /\ isLoading = TRUE /\ error = "none"
  /\ sessionRef = 0 /\ mediaStreamRef = 0
  /\ audioContextRef = FALSE /\ inputAudioContextRef = FALSE
  /\ outputGainRef = FALSE /\ audioProcessorRef = FALSE
  /\ ctx = [k \in {"out", "in"} |-> [st |-> "none", closes |-> 0]]
  /\ nodes = [k \in {"proc", "gain"} |-> [connected |-> FALSE, disconnects |-> 0]]
  /\ conns = << >> /\ streams = << >>
  /\ audioSources = {} /\ nextStartTime = 0 /\ src = << >> /\ msg = << >>
  /\ epoch = 0 /\ currentTurn = << >>
  /\ initPc = "start" /\ recPc = "idle"
  /\ capturedRecording = FALSE /\ lastCapture = NoCapture
  /\ cleanups = 0 /\ ends = 0 /\ endThrew = FALSE
  /\ completed = 0 /\ lastThrown = "none" /\ cleanedAt = "no"
  /\ unmounted = FALSE
  /\ lastClose = NoClose /\ resets = 0 /\ micCalls = 0
  /\ decIn = [v |-> "room", len |-> 0, c |-> 1] /\ decOut = NoDecode
  /\ pcmIn = [v |-> "room", n |-> 0] /\ pcmOut = NoWord
  /\ shapeIn \in ShapeInputs /\ shapeOut = NoPayload

\* The handler picks the payload of the chosen message.
ExtractCall ==
  /\ ~shapeOut.done
  /\ shapeOut' = extractAudio(shapeIn)
  /\ UNCHANGED << impl, clock, uiVars, refVars, platVars, playVars, msg, initPc,
                  recPc, capVars, endVars, lastClose, resets, decIn, decOut, pcmIn,
                  pcmOut, shapeIn, micCalls >>

NextExtract == ExtractCall

SpecExtract == InitExtract /\ [][NextExtract]_vars

\* ------------------------------------------------------------------ claims
\* C1: in every reachable state the speaking flag is true if and only if the
\* set of active playback sources is non-empty.
C1_SpeakingIffActive == isSpeaking <=> (audioSources # {})

\* The buffers enqueued so far came with no interruption between them: every
\* message delivered was audio that decoded, none was interrupting, and no
\* teardown ran.
AllEnqueued ==
  /\ cleanups = 0
  /\ \A i \in 1..Len(msg) : msg[i].m.audio = "ok" /\ ~msg[i].m.interrupted

\* The last buffer enqueued has not ended yet.
LastPlaying == Len(src) > 0 /\ src[Len(src)].ph = "playing"

EnqueueStep ==
  /\ Len(src') = Len(src) + 1
  /\ ~msg'[Len(msg')].m.interrupted

\* C3: when a second audio message is enqueued while the source of the first
\* is still active, the first source is neither stopped nor removed and
\* speaking does not become false.
C3_BothActive ==
  [][EnqueueStep =>
       /\ audioSources \subseteq audioSources'
       /\ \A s \in audioSources : src'[s].ph = src[s].ph
       /\ isSpeaking => isSpeaking']_vars

\* A step that ends the handler of message i, which carries interrupted = true.
InterruptStep(i) ==
  /\ i <= Len(msg')
  /\ msg'[i].m.interrupted /\ msg'[i].pc = "done"
  /\ i > Len(msg) \/ msg[i].pc # "done"

\* C4: processing a message with interrupted = true stops every active source
\* and leaves the active set empty, speaking false and the cursor at 0, for
\* any number of active sources.
C4_Interrupt ==
  [][\A i \in 1..MaxMsgs :
       InterruptStep(i) =>
         /\ audioSources' = {}
         /\ ~isSpeaking'
         /\ nextStartTime' = 0
         /\ \A s \in 1..Len(src') : src'[s].ph # "playing"]_vars

\* C4 witness: two sources were active when the interrupting message came;
\* both are stopped and the scheduler is reset.
C4_Witness ==
  /\ Len(msg) = 3 /\ msg[3].m.interrupted /\ msg[3].m.audio = "none"
  /\ msg[3].pc = "done"
  /\ Len(src) = 2 /\ src[1].ph = "stopped" /\ src[2].ph = "stopped"
  /\ audioSources = {} /\ ~isSpeaking /\ nextStartTime = 0

\* Source s is the first one enqueued after a reset of the cursor to 0.
FirstAfterReset(s) ==
  /\ src[s].epoch > 0
  /\ s = 1 \/ src[s - 1].epoch < src[s].epoch

\* C5: no source is started earlier than the device clock at the moment it is
\* started, and the first source after an interruption starts at that clock.
C5_NoPastStart ==
  \A s \in 1..Len(src) :
    /\ src[s].at >= src[s].now
    /\ FirstAfterReset(s) => src[s].at = src[s].now

\* C5 witness: a source enqueued after an interruption, with the clock past 0.
C5_Witness ==
  \E s \in 1..Len(src) :
    FirstAfterReset(s) /\ src[s].now > 0 /\ src[s].at = src[s].now

\* C6: a capture callback invocation sends a packet exactly when the current
\* recording flag is true and a session handle exists.
C6_CurrentFlag ==
  lastCapture.fired =>
    (lastCapture.sent <=> (lastCapture.recording /\ lastCapture.session))

\* The first teardown ran while the microphone request, the resume of the
\* context, the import or the connection handshake was pending, and no
\* release threw in the latest teardown.
TornDownWhilePending ==
  /\ cleanedAt \in {"mic", "resume", "import", "connect"}
  /\ lastThrown = "none"

\* C7: when teardown runs while the microphone request or the handshake is
\* pending, the later resolution is discarded: no live stream is kept, no
\* session handle is installed and connected does not become true.
C7_Discarded ==
  TornDownWhilePending =>
    /\ sessionRef = 0
    /\ ~isConnected
    /\ \A i \in 1..Len(streams) : ~streams[i].live

\* C8: in a teardown every release is attempted even when an earlier one
\* throws: every resource held before the teardown is released by it, or its
\* own release is the one that threw.
C8_AllAttempted ==
  [][cleanups' = cleanups + 1 =>
       /\ sessionRef # 0 =>
            \/ conns'[sessionRef].closes > conns[sessionRef].closes
            \/ lastThrown' = "session"
       /\ \A s \in audioSources : src'[s].ph # "playing"
       /\ mediaStreamRef # 0 =>
            ~streams'[mediaStreamRef].live \/ lastThrown' = "track"
       /\ (audioContextRef /\ ctx["out"].st # "closed") => ctx'["out"].st = "closed"
       /\ audioProcessorRef =>
            ~nodes'["proc"].connected \/ lastThrown' = "processor"]_vars

\* C9: calling end() twice does not throw and releases no resource twice:
\* every connection, source, stream and context is closed or stopped at most
\* once.
C9_Idempotent ==
  /\ ~endThrew
  /\ \A c \in 1..Len(conns) : conns[c].closes <= 1
  /\ \A s \in 1..Len(src) : src[s].stops <= 1
  /\ \A i \in 1..Len(streams) : streams[i].stops <= 1
  /\ \A k \in {"out", "in"} : ctx[k].closes <= 1

\* A teardown has run after the initialization was over, and no release
\* threw in the latest teardown.
Ended ==
  /\ cleanups > 0
  /\ cleanedAt \in {"done", "failed"}
  /\ lastThrown = "none"

\* C10: after end() has returned the session starts nothing: no packet and
\* no bootstrap turn is sent, no source and no fallback playback is started,
\* and connected, recording and speaking do not become true again.
C10_NoActivityAfterEnd ==
  [][Ended =>
       /\ lastCapture' # lastCapture => ~lastCapture'.sent
       /\ \A c \in 1..Len(conns) : conns'[c].boot = conns[c].boot
       /\ Len(src') = Len(src)
       /\ Len(msg') > Len(msg) => ~msg'[Len(msg')].fb
       /\ isConnected' => isConnected
       /\ isRecording' => isRecording
       /\ isSpeaking' => isSpeaking]_vars

\* Some remote connection of the session has been closed or is being closed.
SessionClosed == \E c \in 1..Len(conns) : conns[c].st \in {"closing", "closed"}

\* C11: once a session has been closed, connected never becomes true again
\* and no new remote connection is opened for it.
C11_NoReconnect ==
  [][SessionClosed =>
       /\ Len(conns') = Len(conns)
       /\ isConnected' => isConnected]_vars

\* A step that handles a message whose audio payload cannot be decoded.
BadAudioStep ==
  /\ Len(msg') = Len(msg) + 1
  /\ msg'[Len(msg')].m.audio \in {"badBase64", "badData"}

\* C12: a message whose audio cannot be decoded leaves the scheduler as it
\* was: the active set, the cursor and the speaking flag are unchanged and
\* the sources that were playing keep playing.
C12_DecodeFailureKeepsState ==
  [][BadAudioStep =>
       /\ audioSources' = audioSources
       /\ nextStartTime' = nextStartTime
       /\ isSpeaking' = isSpeaking
       /\ \A s \in 1..Len(src) : src'[s].ph = src[s].ph]_vars

\* C13: a transport error that is not known to be benign is surfaced as an
\* error and leaves the session not connected; a benign one is not surfaced.
C13_ErrorSurfaced ==
  [][\A b \in BOOLEAN :
       OnError(b) =>
         IF b THEN error' = error
              ELSE error' # "none" /\ ~isConnected']_vars

\* The microphone tracks, the playback sources and the remote connections
\* are all released.
Released ==
  /\ \A i \in 1..Len(streams) : ~streams[i].live
  /\ \A s \in 1..Len(src) : src[s].ph = "playing" => clock >= src[s].at + src[s].dur
  /\ \A c \in 1..Len(conns) : conns[c].st \notin {"connecting", "open"}

\* The session has left through one of its exits: the start failed, a
\* transport error was surfaced, or a teardown ran after the initialization
\* was over and none of its releases threw.
ExitTaken ==
  \/ initPc = "failed"
  \/ error = "Session error"
  \/ cleanups > 0 /\ lastThrown = "none" /\ cleanedAt \in {"done", "failed"}

\* C14: on every exit path the microphone tracks, the active playback
\* sources and the remote connection are released.
C14_ReleasedOnExit == ExitTaken => Released

\* C15: the unexpected-termination notice is raised for a close of the
\* connection exactly when the close was not started locally.
C15_NoticeIffRemote ==
  lastClose.fired => (lastClose.noticed <=> ~lastClose.local)

\* A step of toggleRecording ("room") or of startRecording ("ref").
ToggleStep ==
  \/ ToggleRecording
  \/ \E ok \in BOOLEAN : ToggleResumed(ok)
  \/ StartRecording
  \/ StartResumed
  \/ StartMicGranted
  \/ StartMicFailed

\* C16: while connected is false, toggleRecording changes neither the
\* recording flag nor the microphone held, also when the connection closed
\* after the call had started.
C16_NoToggleWhileDisconnected ==
  [][(~isConnected /\ ToggleStep) =>
       /\ isRecording' = isRecording
       /\ mediaStreamRef' = mediaStreamRef]_vars

\* C17: recording is true only while a microphone stream is held and none of
\* its tracks has been stopped.
C17_RecordingHasLiveStream ==
  isRecording => (mediaStreamRef # 0 /\ streams[mediaStreamRef].live)

\* A step that ends the handler of an interrupting message.
InterruptDone == \E i \in 1..Len(msg') : InterruptStep(i)

\* C18 as stated: the cursor never decreases except when an interruption is
\* handled.
C18_OnlyInterruptLowers ==
  [][nextStartTime' < nextStartTime => InterruptDone]_vars

\* C18 amended: the cursor never decreases except when an interruption is
\* handled or a teardown runs, and both set it to 0.
C18_OnlyResetLowers ==
  [][nextStartTime' < nextStartTime =>
       /\ nextStartTime' = 0
       /\ InterruptDone \/ cleanups' = cleanups + 1]_vars

\* C18 witness: a teardown has set the cursor back to 0 from behind a
\* buffer that was scheduled, and no interruption was handled.
C18_Witness ==
  /\ cleanups = 1 /\ epoch = 1 /\ nextStartTime = 0
  /\ Len(src) > 0
  /\ \A i \in 1..Len(msg) : ~msg[i].m.interrupted

\* A step in which a microphone request is rejected.
MicFailedStep ==
  \/ \E k \in MicErrors : RoomMicFailed(k)
  \/ StartMicFailed

\* C19: when the microphone request fails the session ends in an error
\* state with a message, not connected and with no remote connection open
\* or being opened.
C19_MicFailureTerminal ==
  [][MicFailedStep =>
       /\ error' # "none"
       /\ ~isConnected'
       /\ \A c \in 1..Len(conns') : conns'[c].st \notin {"connecting", "open"}]_vars

\* C20: decoding fewer than 2 * c bytes for c channels fails with the
\* invalid-audio-data error.
C20_ShortInputRejected ==
  (decOut # NoDecode /\ decIn.len < 2 * decIn.c) => decOut.kind = "InvalidAudioData"

\* C21: the word stored for a sample in [-1, 1], divided by 32768, is within
\* 1/32768 of the sample.
C21_RoundTrip ==
  (pcmOut.done /\ Abs(pcmIn.n) <= SampleDen) =>
     Abs(pcmOut.word * SampleDen - pcmIn.n * Int16Scale) <= SampleDen

\* C28: the word stored for any sample lies in [-32768, 32767] and never has
\* the sign opposite to the sample's.
C28_NoWrap ==
  pcmOut.done =>
     /\ pcmOut.word >= 0 - Int16Scale /\ pcmOut.word <= Int16Scale - 1
     /\ pcmIn.n > 0 => pcmOut.word >= 0
     /\ pcmIn.n < 0 => pcmOut.word <= 0

\* Every audio payload delivered so far decodes.
AllDecodable == \A i \in 1..Len(msg) : msg[i].m.audio \in {"ok", "none"}

C23_EndDelivers ==
  [][ends' = ends + 1 => completed' = completed + 1]_vars

\* An interruption was the last message, every payload before it decoded, and
\* the ended event of every source has been delivered, before or after the
\* interruption.
RaceSettled ==
  /\ AllDecodable
  /\ Len(msg) > 0
  /\ msg[Len(msg)].m.interrupted /\ msg[Len(msg)].pc = "done"
  /\ Len(src) > 0
  /\ \A s \in 1..Len(src) : src[s].ph = "ended"

\* C24: whichever of a source's ended event and an interruption is delivered
\* first, the final state is the same: no active source, speaking false and
\* the cursor at 0.
C24_RaceConverges ==
  RaceSettled => (audioSources = {} /\ ~isSpeaking /\ nextStartTime = 0)

\* C24 witness: the first source had played to its end when the interrupting
\* message was handled, it was stopped then, and its ended event came after.
C24_Witness ==
  /\ RaceSettled
  /\ Len(msg) = 2 /\ Len(src) = 2
  /\ src[1].stops = 1
  /\ src[1].at + src[1].dur <= src[2].now

\* The suspended handler of message i resumes after a later message that
\* interrupts has been handled.
ResumesAfterInterrupt(i) ==
  /\ i <= Len(msg)
  /\ msg[i].pc # "done" /\ msg'[i].pc = "done"
  /\ \E j \in (i + 1)..Len(msg) : msg[j].m.interrupted /\ msg[j].pc = "done"

\* C25: messages act on the scheduler in arrival order: the handler of an
\* audio message delivered before an interruption adds no source and does not
\* set speaking once that interruption has been applied.
C25_ArrivalOrder ==
  [][\A i \in 1..MaxMsgs :
       ResumesAfterInterrupt(i) =>
         /\ audioSources' \subseteq audioSources
         /\ isSpeaking' => isSpeaking]_vars

\* C26: the payload played is that of the first field present in the order
\* parts[0].inlineData, parts[0].audio, message.data.
C26_ShapePriority ==
  shapeOut.done =>
    shapeOut = (IF shapeIn.inlineData # 0
                  THEN [done |-> TRUE, shape |-> "inlineData", payload |-> shapeIn.inlineData]
                ELSE IF shapeIn.audio # 0
                  THEN [done |-> TRUE, shape |-> "audio", payload |-> shapeIn.audio]
                ELSE IF shapeIn.data # 0
                  THEN [done |-> TRUE, shape |-> "data", payload |-> shapeIn.data]
                ELSE [done |-> TRUE, shape |-> "none", payload |-> 0])

\* C27: the bootstrap turn is sent to a connection only by the timer armed
\* for that connection, at most once, and not after the session was torn
\* down.
C27_BootstrapOnce ==
  [][\A c \in 1..Len(conns) :
       conns'[c].boot > conns[c].boot =>
         /\ conns[c].boot = 0
         /\ conns[c].timer = "armed" /\ conns'[c].timer = "fired"
         /\ conns[c].closes = 0]_vars

\* The streams whose tracks have not been stopped.
LiveStreams == {i \in 1..Len(streams) : streams[i].live}

\* C29: at most one microphone stream is live at any time, and a live stream
\* is the one the session holds, so that stopRecording or a teardown can stop
\* its tracks.
C29_OneStream ==
  /\ Cardinality(LiveStreams) <= 1
  /\ \A i \in LiveStreams : mediaStreamRef = i

\* The connections that are open.
OpenConns == {c \in 1..Len(conns) : conns[c].st = "open"}

\* C30: at most one remote connection is open at any time, and an open
\* connection is the one the session holds, so that a teardown closes it.
C30_OneConnection ==
  /\ Cardinality(OpenConns) <= 1
  /\ \A c \in OpenConns : sessionRef = c
====
